---- MODULE Spec2Model ----
(***************************************************************************)
(* Model of src/App.py: the Flask backend of Techsuppliers.                *)
(*                                                                         *)
(* Strings are sequences of one-character strings, so that sanitizar and   *)
(* the validators are computed character by character as the code does.    *)
(* Times are integers (seconds).  The rate-limit parameters given at the   *)
(* call sites (10/60, 30/60, 10/60) are scaled down to RegMax, ListMax,    *)
(* LoginMax and Window so that the quota is reached within the bounds.     *)
(*                                                                         *)
(* The specifications share the actions:                                   *)
(*   Spec        concurrent request threads, a burst of registrations      *)
(*               from one address;                                         *)
(*   SpecSeq     one request at a time, one address, the three endpoints   *)
(*               and every form;                                           *)
(*   SpecRate    one request at a time, two addresses, one endpoint;       *)
(*   SpecCampos  one request at a time, registrations whose email, phone   *)
(*               and national-ID are valid or invalid in every             *)
(*               combination;                                              *)
(*   SpecConta   one request at a time, registrations and logins of two    *)
(*               accounts;                                                 *)
(*   SpecFn      sanitizar and validar_cpf called on their own, on every   *)
(*               input of a bounded set.                                   *)
(* The column data_criacao, which no handler reads, is left out.           *)
(***************************************************************************)
EXTENDS Integers, Sequences, FiniteSets, TLC

(***************************************************************************)
(* Bounds of the model.                                                    *)
(***************************************************************************)
\* rate_limit(10,60) on cadastrar_cliente (App.py:100), scaled
RegMax == 2
\* rate_limit(30,60) on clientes_json (App.py:134), scaled
ListMax == 3
\* rate_limit(10,60) on login_cliente (App.py:147), scaled
LoginMax == 2
\* the 60 second window of the three call sites, scaled
Window == 2
\* requests started in a concurrent run
MaxReqs == 3

\* longest string given to sanitizar when it is called on its own
MaxLen == 3
\* trailing digits of the national-ID that range over every value when
\* validar_cpf is called on its own
CpfLivres == 3

\* the clock stops once a full window has passed
MaxTime == Window

(***************************************************************************)
(* Characters and strings.                                                 *)
(***************************************************************************)
None == <<"None">>

Digits == {"0", "1", "2", "3", "4", "5", "6", "7", "8", "9"}

Letters ==
    {"a", "b", "c", "d", "e", "f", "g", "h", "i", "j", "k", "l", "m",
     "n", "o", "p", "q", "r", "s", "t", "u", "v", "w", "x", "y", "z",
     "A", "B", "C", "D", "E", "F", "G", "H", "I", "J", "K", "L", "M",
     "N", "O", "P", "Q", "R", "S", "T", "U", "V", "W", "X", "Y", "Z"}

\* \w of the re module
WordChars == Digits \cup Letters \cup {"_"}

\* what str.strip() removes
Whitespace == {" ", "\t", "\n", "\r"}

DigitVal(c) ==
    CASE c = "0" -> 0 [] c = "1" -> 1 [] c = "2" -> 2 [] c = "3" -> 3
      [] c = "4" -> 4 [] c = "5" -> 5 [] c = "6" -> 6 [] c = "7" -> 7
      [] c = "8" -> 8 [] c = "9" -> 9

\* truthiness of a form value: None and "" are falsy
Truthy(texto) == texto # None /\ texto # <<>>

RECURSIVE LStrip(_)
LStrip(s) ==
    IF s # <<>> /\ Head(s) \in Whitespace THEN LStrip(Tail(s)) ELSE s

RECURSIVE RStrip(_)
RStrip(s) ==
    IF s # <<>> /\ s[Len(s)] \in Whitespace
    THEN RStrip(SubSeq(s, 1, Len(s) - 1))
    ELSE s

strip(s) == RStrip(LStrip(s))

\* html.escape(s, quote=True), one character
EscapeChar(c) ==
    CASE c = "&"  -> <<"&", "a", "m", "p", ";">>
      [] c = "<"  -> <<"&", "l", "t", ";">>
      [] c = ">"  -> <<"&", "g", "t", ";">>
      [] c = "\"" -> <<"&", "q", "u", "o", "t", ";">>
      [] c = "'"  -> <<"&", "#", "x", "2", "7", ";">>
      [] OTHER    -> <<c>>

RECURSIVE escape(_)
escape(s) ==
    IF s = <<>> THEN <<>> ELSE EscapeChar(Head(s)) \o escape(Tail(s))

Stripped == {";", "\"", "'"}

NotStripped(c) == c \notin Stripped

sanitizar(texto) ==
    IF ~Truthy(texto) THEN <<>>
    ELSE SelectSeq(escape(strip(texto)), NotStripped)

AllIn(s, lo, hi, cls) == \A k \in lo..hi : s[k] \in cls

\* ^[\w\.-]+@[\w\.-]+\.\w+$
validar_email(email) ==
    \E i \in 2..Len(email) : \E j \in (i + 2)..(Len(email) - 1) :
        /\ email[i] = "@"
        /\ email[j] = "."
        /\ AllIn(email, 1, i - 1, WordChars \cup {".", "-"})
        /\ AllIn(email, i + 1, j - 1, WordChars \cup {".", "-"})
        /\ AllIn(email, j + 1, Len(email), WordChars)

IsDigit(c) == c \in Digits

\* re.sub(r'\D', '', s)
OnlyDigits(s) == SelectSeq(s, IsDigit)

RECURSIVE soma(_, _, _)
\* sum(int(cpf[j])*((i+1)-j) for j in range(i)), cpf indexed from 0 in the code
soma(cpf, i, j) ==
    IF j >= i THEN 0
    ELSE DigitVal(cpf[j + 1]) * ((i + 1) - j) + soma(cpf, i, j + 1)

\* mutant: a computed digit above 9 is not replaced by 0
digitoSemZero(cpf, i) == 11 - (soma(cpf, i, 0) % 11)

digito(cpf, i) ==
    LET d == 11 - (soma(cpf, i, 0) % 11) IN IF d > 9 THEN 0 ELSE d

validar_cpf(cpfRaw) ==
    LET cpf == OnlyDigits(cpfRaw) IN
    IF Len(cpf) # 11 \/ (\A k \in 1..11 : cpf[k] = cpf[1]) THEN FALSE
    ELSE \A i \in 9..10 : digito(cpf, i) = DigitVal(cpf[i + 1])

validar_telefone(tel) == Len(OnlyDigits(tel)) \in {10, 11}

\* int(idade): surrounding whitespace, an optional sign, then decimal digits
IntBody(s) ==
    LET t == strip(s) IN
    IF t # <<>> /\ Head(t) \in {"+", "-"} THEN Tail(t) ELSE t

IsIntStr(s) == IntBody(s) # <<>> /\ \A k \in 1..Len(IntBody(s)) : IntBody(s)[k] \in Digits

RECURSIVE DecVal(_)
DecVal(s) ==
    IF s = <<>> THEN 0
    ELSE 10 * DecVal(SubSeq(s, 1, Len(s) - 1)) + DigitVal(s[Len(s)])

int(s) ==
    LET t == strip(s) IN
    IF t # <<>> /\ Head(t) = "-" THEN 0 - DecVal(IntBody(s)) ELSE DecVal(IntBody(s))

\* werkzeug.security: a salted one-way hash, stored as method$salt$digest;
\* the digest of a password under a salt is the term <<"H", salt, senha>>
Salts == {"s1", "s2"}

generate_password_hash(senha, salt) ==
    <<"scrypt", salt, <<"H", salt, senha>>>>

check_password_hash(pwhash, senha) ==
    <<"H", pwhash[2], senha>> = pwhash[3]

(***************************************************************************)
(* Inputs: the client addresses and the forms a request may carry.         *)
(***************************************************************************)
Procs == {1, 2}

IP1 == "10.0.0.1"
IP2 == "10.0.0.2"
IPs == {IP1, IP2}

Endpoints == {"cadastrar_cliente", "clientes_json", "login_cliente"}

Email1 == <<"a", "@", "b", ".", "c", "o">>
Email2 == <<"c", "@", "d", ".", "c", "o">>
EmailInvalido == <<"a", "@", "b">>

Cpf1 == <<"5", "2", "9", "9", "8", "2", "2", "4", "7", "2", "5">>
Cpf2 == <<"1", "1", "1", "4", "4", "4", "7", "7", "7", "3", "5">>
CpfInvalido == <<"5", "2", "9", "9", "8", "2", "2", "4", "7", "2", "4">>

Tel1 == <<"1", "1", "9", "1", "2", "3", "4", "5", "6", "7">>
TelInvalido == <<"1", "2", "3">>

Senha1 == <<"p", "1">>
Senha2 == <<"p", "2">>

Form(nome, idade, email, telefone, cpf, senha) ==
    [nome |-> nome, idade |-> idade, email |-> email, telefone |-> telefone,
     endereco |-> <<"R", "u", "a">>, genero |-> <<"F">>, cpf |-> cpf,
     senha |-> senha]

Nome1 == <<"A", "n", "a">>
Idade1 == <<"3", "0">>
IdadeInvalida == <<"x">>

FormVazio ==
    [nome |-> None, idade |-> None, email |-> None, telefone |-> None,
     endereco |-> None, genero |-> None, cpf |-> None, senha |-> None]

\* valid forms: two with the same email, two with the same national-ID
FormsValidos ==
    {Form(Nome1, Idade1, Email1, Tel1, Cpf1, Senha1),
     Form(Nome1, Idade1, Email1, Tel1, Cpf2, Senha1),
     Form(Nome1, Idade1, Email2, Tel1, Cpf2, Senha1)}

RegForms ==
    FormsValidos
    \cup {Form(Nome1, IdadeInvalida, Email1, Tel1, Cpf1, Senha1),
          Form(None, Idade1, Email1, Tel1, Cpf1, Senha1),
          Form(Nome1, Idade1, EmailInvalido, TelInvalido, CpfInvalido, Senha1),
          Form(Nome1, Idade1, Email1, TelInvalido, CpfInvalido, Senha1),
          Form(Nome1, Idade1, Email1, Tel1, CpfInvalido, Senha1)}

FormRate == Form(Nome1, Idade1, Email1, Tel1, Cpf1, Senha1)

\* eight digits and an apostrophe
TelAspas == <<"1", "1", "9", "1", "2", "3", "4", "5", "'">>
\* an apostrophe and nine digits
CpfAspas == <<"'", "1", "2", "3", "4", "5", "6", "8", "1", "5">>

\* every combination of a valid or invalid email, phone and national-ID, and
\* a form without nome whose other fields are invalid
FormsCampos ==
    {Form(Nome1, Idade1, e, t, c, Senha1) :
        e \in {Email1, EmailInvalido},
        t \in {Tel1, TelInvalido, TelAspas},
        c \in {Cpf1, CpfInvalido, CpfAspas}}
    \cup {Form(None, Idade1, EmailInvalido, TelInvalido, CpfInvalido, Senha1)}

ConcForms ==
    FormsValidos \cup {Form(Nome1, IdadeInvalida, Email1, Tel1, Cpf1, Senha1)}

LoginForm(email, senha) == [FormVazio EXCEPT !.email = email, !.senha = senha]

LoginForms ==
    {LoginForm(Email1, Senha1), LoginForm(Email1, Senha2),
     LoginForm(Email2, Senha1), LoginForm(Email1, None)}

\* Email1 as typed with a space before and after it
EmailEspacos == <<" ">> \o Email1 \o <<" ">>

\* two accounts with different passwords, one of them with a padded email
FormsConta ==
    {Form(Nome1, Idade1, EmailEspacos, Tel1, Cpf1, Senha1),
     Form(Nome1, Idade1, Email2, Tel1, Cpf2, Senha2)}

\* logins with the registered credentials, with the other account's
\* password and with the unpadded email
LoginsConta ==
    {LoginForm(EmailEspacos, Senha1), LoginForm(Email2, Senha2),
     LoginForm(Email2, Senha1), LoginForm(Email1, Senha2)}

FormsOf(ep) ==
    CASE ep = "cadastrar_cliente" -> RegForms
      [] ep = "clientes_json"     -> {FormVazio}
      [] ep = "login_cliente"     -> LoginForms

\* the (max_requests, window) given to rate_limit at each call site
MaxRequests(ep) ==
    CASE ep = "cadastrar_cliente" -> RegMax
      [] ep = "clientes_json"     -> ListMax
      [] ep = "login_cliente"     -> LoginMax

WindowOf(ep) == Window

(***************************************************************************)
(* State.                                                                  *)
(***************************************************************************)
VARIABLES
    clock,          \* what time() returns
    request_times,  \* request_times[ip]: the list of timestamps of ip
    clientes,       \* the rows of table clientes, in insertion order
    session,        \* session[ip]: the session cookie of the client at ip
    pc,             \* pc[p]: where request thread p stands
    req,            \* req[p]: the request p handles (endpoint, address, form)
    now,            \* now[p]: the local now of decorated
    tmp,            \* tmp[p]: the list built by the comprehension of line 29
    cliente,        \* cliente[p]: the row fetched by login_cliente
    resp,           \* resp[p]: what the request returned
    admitted,       \* history: admitted[ip][ep], the times of the admitted calls
    nreq,           \* requests started so far (concurrent runs)
    registrados,    \* history: the raw email and password of every registration
                    \* that returned success, with the id of the row it stored
    texto,          \* the argument of a function called on its own
    chamada,        \* which function has been called on texto
    saida           \* what the calls returned, in order

\* the state of a function called on its own
fnvars == <<texto, chamada, saida>>

vars == <<clock, request_times, clientes, session, pc, req, now, tmp,
          cliente, resp, admitted, nreq, registrados, texto, chamada, saida>>

NoReq == [ep |-> "none", ip |-> "none", form |-> FormVazio]
NoRow == [id |-> 0]
NoSession == [cliente_id |-> 0, cliente_nome |-> None]
NoResp == [kind |-> "none", code |-> 0, status |-> "", mensagem |-> "", rows |-> <<>>]

Json(code, status, mensagem) ==
    [kind |-> "json", code |-> code, status |-> status, mensagem |-> mensagem,
     rows |-> <<>>]

\* an exception that leaves the view function: Flask answers 500
Raised(nome) ==
    [kind |-> "exception", code |-> 500, status |-> nome, mensagem |-> "",
     rows |-> <<>>]

\* the state of the application after start-up
InitApp ==
    /\ clock = 0
    /\ request_times = [ip \in IPs |-> <<>>]
    /\ clientes = <<>>
    /\ session = [ip \in IPs |-> NoSession]
    /\ pc = [p \in Procs |-> "idle"]
    /\ req = [p \in Procs |-> NoReq]
    /\ now = [p \in Procs |-> 0]
    /\ tmp = [p \in Procs |-> <<>>]
    /\ cliente = [p \in Procs |-> NoRow]
    /\ resp = [p \in Procs |-> NoResp]
    /\ admitted = [ip \in IPs |-> [ep \in Endpoints |-> <<>>]]
    /\ nreq = 0
    /\ registrados = {}

Init ==
    /\ InitApp
    /\ texto = <<>>
    /\ chamada = "nenhuma"
    /\ saida = <<>>

(***************************************************************************)
(* The rate limiter, App.py:23-35.                                         *)
(***************************************************************************)
\* mutant: a timestamp exactly one window old is kept
PruneInclusive(ts, n, window) ==
    LET fresh(t) == n - t <= window IN SelectSeq(ts, fresh)

\* [t for t in request_times[ip] if now - t < window]
Prune(ts, n, window) ==
    LET fresh(t) == n - t < window IN SelectSeq(ts, fresh)

\* mutant: the comparison is off by one
ExceededOffByOne(ts, max) == Len(ts) > max

\* len(request_times[ip]) >= max_requests
Exceeded(ts, max) == Len(ts) >= max

\* history: forget the admitted calls that no present or future call can
\* still see inside its window
Floor(pcs, nows, c) ==
    LET active == {nows[p] : p \in {q \in Procs : pcs[q] # "idle"}} \cup {c} IN
    CHOOSE m \in active : \A k \in active : m <= k

Remember(adm, floor) ==
    [ip \in IPs |-> [ep \in Endpoints |->
        LET seen(t) == floor - t < WindowOf(ep) IN SelectSeq(adm[ip][ep], seen)]]

\* time passes
Tick ==
    /\ clock < MaxTime
    /\ UNCHANGED <<registrados, fnvars>>
    /\ clock' = clock + 1
    /\ admitted' = Remember(admitted, Floor(pc, now, clock + 1))
    /\ UNCHANGED <<request_times, clientes, session, pc, req, now, tmp,
                   cliente, resp, nreq>>

\* a request reaches decorated: lines 27-28 and the comprehension of line 29
Arrive(p, ip, ep, form) ==
    /\ pc[p] = "idle"
    /\ UNCHANGED <<registrados, fnvars>>
    /\ req' = [req EXCEPT ![p] = [ep |-> ep, ip |-> ip, form |-> form]]
    /\ now' = [now EXCEPT ![p] = clock]
    /\ tmp' = [tmp EXCEPT ![p] = Prune(request_times[ip], clock, WindowOf(ep))]
    /\ pc' = [pc EXCEPT ![p] = "rl_write"]
    /\ resp' = [resp EXCEPT ![p] = NoResp]
    /\ UNCHANGED <<clock, request_times, clientes, session, cliente, admitted>>

\* concurrent threads, one client address, registrations
ArriveConc(p) ==
    /\ nreq < MaxReqs
    /\ \E form \in ConcForms : Arrive(p, IP1, "cadastrar_cliente", form)
    /\ nreq' = nreq + 1

\* one request at a time, one client address, every endpoint and form
ArriveSeq(p) ==
    /\ \A q \in Procs : pc[q] = "idle"
    /\ \E ep \in Endpoints : \E form \in FormsOf(ep) : Arrive(p, IP1, ep, form)
    /\ UNCHANGED nreq

\* one request at a time, two client addresses, one endpoint
ArriveRate(p) ==
    /\ \A q \in Procs : pc[q] = "idle"
    /\ \E ip \in IPs : Arrive(p, ip, "cadastrar_cliente", FormRate)
    /\ UNCHANGED nreq

\* one request at a time, one client address, registrations whose fields
\* are valid or invalid in every combination
ArriveCampos(p) ==
    /\ \A q \in Procs : pc[q] = "idle"
    /\ \E form \in FormsCampos : Arrive(p, IP1, "cadastrar_cliente", form)
    /\ UNCHANGED nreq

\* one request at a time, one client address, registrations and logins of
\* two accounts
ArriveConta(p) ==
    /\ \A q \in Procs : pc[q] = "idle"
    /\ \/ \E form \in FormsConta : Arrive(p, IP1, "cadastrar_cliente", form)
       \/ \E form \in LoginsConta : Arrive(p, IP1, "login_cliente", form)
    /\ UNCHANGED nreq

\* line 29: the assignment request_times[ip] = ...
RlWrite(p) ==
    /\ pc[p] = "rl_write"
    /\ UNCHANGED <<registrados, fnvars>>
    /\ request_times' = [request_times EXCEPT ![req[p].ip] = tmp[p]]
    /\ pc' = [pc EXCEPT ![p] = "rl_check"]
    /\ UNCHANGED <<clock, clientes, session, req, now, tmp, cliente, resp,
                   admitted, nreq>>

\* mutant: the attempt is recorded before the quota is checked
RlCheckRecords(p) ==
    /\ pc[p] = "rl_check"
    /\ UNCHANGED <<registrados, fnvars>>
    /\ IF Exceeded(request_times[req[p].ip], MaxRequests(req[p].ep))
       THEN /\ resp' = [resp EXCEPT ![p] = Json(429, "erro", "Muitas requisições")]
            /\ pc' = [pc EXCEPT ![p] = "done"]
            /\ request_times' = [request_times EXCEPT
                    ![req[p].ip] = Append(request_times[req[p].ip], now[p])]
       ELSE /\ pc' = [pc EXCEPT ![p] = "rl_append"]
            /\ UNCHANGED <<resp, request_times>>
    /\ UNCHANGED <<clock, clientes, session, req, now, tmp, cliente, admitted, nreq>>

\* lines 30-31
RlCheck(p) ==
    /\ pc[p] = "rl_check"
    /\ UNCHANGED <<registrados, fnvars>>
    /\ IF Exceeded(request_times[req[p].ip], MaxRequests(req[p].ep))
       THEN /\ resp' = [resp EXCEPT ![p] = Json(429, "erro", "Muitas requisições")]
            /\ pc' = [pc EXCEPT ![p] = "done"]
       ELSE /\ pc' = [pc EXCEPT ![p] = "rl_append"]
            /\ UNCHANGED resp
    /\ UNCHANGED <<clock, request_times, clientes, session, req, now, tmp,
                   cliente, admitted, nreq>>

Entry(ep) ==
    CASE ep = "cadastrar_cliente" -> "cad_valida"
      [] ep = "clientes_json"     -> "list_select"
      [] ep = "login_cliente"     -> "login_select"

\* line 32, then the call of f on line 33
RlAppend(p) ==
    /\ pc[p] = "rl_append"
    /\ UNCHANGED <<registrados, fnvars>>
    /\ request_times' = [request_times EXCEPT
            ![req[p].ip] = Append(request_times[req[p].ip], now[p])]
    /\ admitted' = [admitted EXCEPT
            ![req[p].ip][req[p].ep] = Append(admitted[req[p].ip][req[p].ep], now[p])]
    /\ pc' = [pc EXCEPT ![p] = Entry(req[p].ep)]
    /\ UNCHANGED <<clock, clientes, session, req, now, tmp, cliente, resp, nreq>>

(***************************************************************************)
(* POST /cadastrar_cliente, App.py:101-128.                                *)
(***************************************************************************)
\* lines 102-109: the locals of cadastrar_cliente
Campos(form) ==
    [nome     |-> sanitizar(form.nome),
     idade    |-> form.idade,
     email    |-> sanitizar(form.email),
     telefone |-> sanitizar(form.telefone),
     endereco |-> sanitizar(form.endereco),
     genero   |-> sanitizar(form.genero),
     cpf      |-> sanitizar(form.cpf),
     senha    |-> form.senha]

\* line 112: all([nome, idade, email, telefone, endereco, genero, cpf, senha])
TodosPresentes(c) ==
    /\ Truthy(c.nome) /\ Truthy(c.idade) /\ Truthy(c.email) /\ Truthy(c.telefone)
    /\ Truthy(c.endereco) /\ Truthy(c.genero) /\ Truthy(c.cpf) /\ Truthy(c.senha)

\* mutant: the national-ID check is left out
ValidacaoSemCpf(c) ==
    IF ~TodosPresentes(c) THEN Json(400, "erro", "Todos os campos são obrigatórios")
    ELSE IF ~validar_email(c.email) THEN Json(400, "erro", "Email inválido")
    ELSE IF ~validar_telefone(c.telefone) THEN Json(400, "erro", "Telefone inválido")
    ELSE NoResp

\* mutant: the phone is checked before the email
ValidacaoTelefonePrimeiro(c) ==
    IF ~TodosPresentes(c) THEN Json(400, "erro", "Todos os campos são obrigatórios")
    ELSE IF ~validar_telefone(c.telefone) THEN Json(400, "erro", "Telefone inválido")
    ELSE IF ~validar_email(c.email) THEN Json(400, "erro", "Email inválido")
    ELSE IF ~validar_cpf(c.cpf) THEN Json(400, "erro", "CPF inválido")
    ELSE NoResp

\* lines 112-116: the response of the first check that fails, NoResp if none
Validacao(c) ==
    IF ~TodosPresentes(c) THEN Json(400, "erro", "Todos os campos são obrigatórios")
    ELSE IF ~validar_email(c.email) THEN Json(400, "erro", "Email inválido")
    ELSE IF ~validar_telefone(c.telefone) THEN Json(400, "erro", "Telefone inválido")
    ELSE IF ~validar_cpf(c.cpf) THEN Json(400, "erro", "CPF inválido")
    ELSE NoResp

CadValida(p) ==
    /\ pc[p] = "cad_valida"
    /\ UNCHANGED <<registrados, fnvars>>
    /\ LET r == Validacao(Campos(req[p].form)) IN
       IF r # NoResp
       THEN /\ resp' = [resp EXCEPT ![p] = r]
            /\ pc' = [pc EXCEPT ![p] = "done"]
       ELSE /\ pc' = [pc EXCEPT ![p] = "cad_select"]
            /\ UNCHANGED resp
    /\ UNCHANGED <<clock, request_times, clientes, session, req, now, tmp,
                   cliente, admitted, nreq>>

\* mutant: the query looks for the national-ID only
JaCadastradoSoCpf(rows, email, cpf) ==
    \E k \in 1..Len(rows) : rows[k].cpf = cpf

\* line 122: SELECT id FROM clientes WHERE email=? OR cpf=?
JaCadastrado(rows, email, cpf) ==
    \E k \in 1..Len(rows) : rows[k].email = email \/ rows[k].cpf = cpf

\* lines 122-123
CadSelect(p) ==
    /\ pc[p] = "cad_select"
    /\ UNCHANGED <<registrados, fnvars>>
    /\ LET c == Campos(req[p].form) IN
       IF JaCadastrado(clientes, c.email, c.cpf)
       THEN /\ resp' = [resp EXCEPT ![p] = Json(400, "erro", "Email ou CPF já cadastrado")]
            /\ pc' = [pc EXCEPT ![p] = "done"]
       ELSE /\ pc' = [pc EXCEPT ![p] = "cad_insert"]
            /\ UNCHANGED resp
    /\ UNCHANGED <<clock, request_times, clientes, session, req, now, tmp,
                   cliente, admitted, nreq>>

\* mutant: cpf TEXT without UNIQUE
ViolaUniqueSoEmail(rows, email, cpf) ==
    \E k \in 1..Len(rows) : rows[k].email = email

\* lines 88-89: email TEXT UNIQUE, cpf TEXT UNIQUE
ViolaUnique(rows, email, cpf) ==
    \E k \in 1..Len(rows) : rows[k].email = email \/ rows[k].cpf = cpf

\* mutant: the submitted password is stored as it came
NovaLinhaTextoPlano(rows, c, senha_hash) ==
    [id       |-> Len(rows) + 1,
     nome     |-> c.nome,
     idade    |-> int(c.idade),
     email    |-> c.email,
     telefone |-> c.telefone,
     endereco |-> c.endereco,
     genero   |-> c.genero,
     cpf      |-> c.cpf,
     senha    |-> c.senha]

\* the row INSERT stores; id INTEGER PRIMARY KEY AUTOINCREMENT
NovaLinha(rows, c, senha_hash) ==
    [id       |-> Len(rows) + 1,
     nome     |-> c.nome,
     idade    |-> int(c.idade),
     email    |-> c.email,
     telefone |-> c.telefone,
     endereco |-> c.endereco,
     genero   |-> c.genero,
     cpf      |-> c.cpf,
     senha    |-> senha_hash]

\* lines 119 and 124-128: int(idade) raises ValueError, the INSERT raises
\* sqlite3.IntegrityError on a UNIQUE column; nothing catches either
CadInsert(p) ==
    /\ pc[p] = "cad_insert"
    /\ UNCHANGED fnvars
    /\ LET c == Campos(req[p].form) IN
       IF ~IsIntStr(c.idade)
       THEN /\ resp' = [resp EXCEPT ![p] = Raised("ValueError")]
            /\ UNCHANGED <<clientes, registrados>>
       ELSE IF ViolaUnique(clientes, c.email, c.cpf)
       THEN /\ resp' = [resp EXCEPT ![p] = Raised("IntegrityError")]
            /\ UNCHANGED <<clientes, registrados>>
       ELSE /\ \E salt \in Salts :
                clientes' = Append(clientes,
                    NovaLinha(clientes, c, generate_password_hash(c.senha, salt)))
            /\ resp' = [resp EXCEPT ![p] = Json(200, "ok", "Cliente cadastrado com sucesso")]
            /\ registrados' = registrados \cup
                    {[email |-> req[p].form.email, senha |-> req[p].form.senha,
                      id |-> Len(clientes) + 1]}
    /\ pc' = [pc EXCEPT ![p] = "done"]
    /\ UNCHANGED <<clock, request_times, session, req, now, tmp, cliente,
                   admitted, nreq>>

(***************************************************************************)
(* GET /clientes_json, App.py:135-141.                                     *)
(***************************************************************************)
\* SELECT id,nome,email,telefone,cpf,genero
Resumo(r) ==
    [id |-> r.id, nome |-> r.nome, email |-> r.email, telefone |-> r.telefone,
     cpf |-> r.cpf, genero |-> r.genero]

\* mutant: ORDER BY id, the oldest record first
ListagemAsc(rows) == [k \in 1..Len(rows) |-> Resumo(rows[k])]

\* ORDER BY id DESC: ids grow with the position in clientes
Listagem(rows) == [k \in 1..Len(rows) |-> Resumo(rows[Len(rows) + 1 - k])]

ListSelect(p) ==
    /\ pc[p] = "list_select"
    /\ UNCHANGED <<registrados, fnvars>>
    /\ resp' = [resp EXCEPT ![p] =
            [kind |-> "json", code |-> 200, status |-> "", mensagem |-> "",
             rows |-> Listagem(clientes)]]
    /\ pc' = [pc EXCEPT ![p] = "done"]
    /\ UNCHANGED <<clock, request_times, clientes, session, req, now, tmp,
                   cliente, admitted, nreq>>

(***************************************************************************)
(* POST /login_cliente, App.py:148-159.                                    *)
(***************************************************************************)
\* SELECT * FROM clientes WHERE email=?  then fetchone()
BuscaPorEmail(rows, email) ==
    IF \E k \in 1..Len(rows) : rows[k].email = email
    THEN rows[CHOOSE k \in 1..Len(rows) : rows[k].email = email]
    ELSE NoRow

\* mutant: the email is looked up as submitted
LoginSelectSemSanitizar(p) ==
    /\ pc[p] = "login_select"
    /\ UNCHANGED <<registrados, fnvars>>
    /\ cliente' = [cliente EXCEPT ![p] = BuscaPorEmail(clientes, req[p].form.email)]
    /\ pc' = [pc EXCEPT ![p] = "login_check"]
    /\ UNCHANGED <<clock, request_times, clientes, session, req, now, tmp,
                   resp, admitted, nreq>>

\* lines 149-154
LoginSelect(p) ==
    /\ pc[p] = "login_select"
    /\ UNCHANGED <<registrados, fnvars>>
    /\ cliente' = [cliente EXCEPT ![p] =
            BuscaPorEmail(clientes, sanitizar(req[p].form.email))]
    /\ pc' = [pc EXCEPT ![p] = "login_check"]
    /\ UNCHANGED <<clock, request_times, clientes, session, req, now, tmp,
                   resp, admitted, nreq>>

CredenciaisInvalidas == Json(401, "erro", "Email ou senha incorretos")

\* mutant: an unknown email gets a message of its own
RespostaLoginEnumera(cli, senha) ==
    IF cli = NoRow THEN Json(401, "erro", "Email nao cadastrado")
    ELSE IF senha = None THEN Raised("AttributeError")
    ELSE IF ~check_password_hash(cli.senha, senha) THEN CredenciaisInvalidas
    ELSE Json(200, "ok", "Login realizado com sucesso")

\* lines 155-156 and 159: what login_cliente returns for the fetched row and
\* the submitted password; check_password_hash(hash, None) raises AttributeError
RespostaLogin(cli, senha) ==
    IF cli = NoRow THEN CredenciaisInvalidas
    ELSE IF senha = None THEN Raised("AttributeError")
    ELSE IF ~check_password_hash(cli.senha, senha) THEN CredenciaisInvalidas
    ELSE Json(200, "ok", "Login realizado com sucesso")

\* mutant: the marker is written for a known email before the password is
\* verified
SessaoLoginSemSenha(sess, cli, senha) ==
    IF cli # NoRow
    THEN [cliente_id |-> cli.id, cliente_nome |-> cli.nome]
    ELSE sess

\* lines 157-158: the session after login_cliente
SessaoLogin(sess, cli, senha) ==
    IF cli # NoRow /\ senha # None /\ check_password_hash(cli.senha, senha)
    THEN [cliente_id |-> cli.id, cliente_nome |-> cli.nome]
    ELSE sess

\* lines 155-159
LoginCheck(p) ==
    /\ pc[p] = "login_check"
    /\ UNCHANGED <<registrados, fnvars>>
    /\ resp' = [resp EXCEPT ![p] = RespostaLogin(cliente[p], req[p].form.senha)]
    /\ session' = [session EXCEPT ![req[p].ip] =
            SessaoLogin(session[req[p].ip], cliente[p], req[p].form.senha)]
    /\ pc' = [pc EXCEPT ![p] = "done"]
    /\ UNCHANGED <<clock, request_times, clientes, req, now, tmp, cliente,
                   admitted, nreq>>

(***************************************************************************)
(* The response is sent and the thread takes the next request.             *)
(***************************************************************************)
Finish(p) ==
    /\ pc[p] = "done"
    /\ UNCHANGED <<registrados, fnvars>>
    /\ pc' = [pc EXCEPT ![p] = "idle"]
    /\ req' = [req EXCEPT ![p] = NoReq]
    /\ now' = [now EXCEPT ![p] = 0]
    /\ tmp' = [tmp EXCEPT ![p] = <<>>]
    /\ cliente' = [cliente EXCEPT ![p] = NoRow]
    /\ resp' = [resp EXCEPT ![p] = NoResp]
    /\ admitted' = Remember(admitted, Floor([pc EXCEPT ![p] = "idle"], now, clock))
    /\ UNCHANGED <<clock, request_times, clientes, session, nreq>>

Step(p) ==
    \/ RlWrite(p)
    \/ RlCheck(p)
    \/ RlAppend(p)
    \/ CadValida(p)
    \/ CadSelect(p)
    \/ CadInsert(p)
    \/ ListSelect(p)
    \/ LoginSelect(p)
    \/ LoginCheck(p)
    \/ Finish(p)

StepConc(p) ==
    \/ RlWrite(p)
    \/ RlCheck(p)
    \/ RlAppend(p)
    \/ CadValida(p)
    \/ CadSelect(p)
    \/ CadInsert(p)
    \/ Finish(p)

\* requests handled by concurrent threads (the threaded server of app.run):
\* a burst of registrations, during which the clock does not advance
Next ==
    \/ \E p \in Procs : ArriveConc(p)
    \/ \E p \in Procs : StepConc(p)

Spec == Init /\ [][Next]_vars

\* requests handled one after the other by one thread
Worker == 1

NextSeq ==
    \/ Tick
    \/ ArriveSeq(Worker)
    \/ Step(Worker)

SpecSeq == Init /\ [][NextSeq]_vars

\* the rate limiter under the requests of two clients to one endpoint
StepRate(p) ==
    \/ RlWrite(p)
    \/ RlCheck(p)
    \/ RlAppend(p)
    \/ CadValida(p)
    \/ CadSelect(p)
    \/ CadInsert(p)
    \/ Finish(p)

NextRate ==
    \/ Tick
    \/ ArriveRate(Worker)
    \/ StepRate(Worker)

SpecRate == Init /\ [][NextRate]_vars

\* registration followed by login
StepConta(p) ==
    \/ RlWrite(p)
    \/ RlCheck(p)
    \/ RlAppend(p)
    \/ CadValida(p)
    \/ CadSelect(p)
    \/ CadInsert(p)
    \/ LoginSelect(p)
    \/ LoginCheck(p)
    \/ Finish(p)

NextConta ==
    \/ Tick
    \/ ArriveConta(Worker)
    \/ StepConta(Worker)

SpecConta == Init /\ [][NextConta]_vars

\* the validation of cadastrar_cliente under forms of every kind
StepCampos(p) ==
    \/ RlWrite(p)
    \/ RlCheck(p)
    \/ RlAppend(p)
    \/ CadValida(p)
    \/ CadSelect(p)
    \/ CadInsert(p)
    \/ Finish(p)

NextCampos ==
    \/ Tick
    \/ ArriveCampos(Worker)
    \/ StepCampos(Worker)

SpecCampos == Init /\ [][NextCampos]_vars

(***************************************************************************)
(* sanitizar and validar_cpf called on their own, App.py:40-58.            *)
(***************************************************************************)
\* the input alphabet: whitespace, the characters html.escape rewrites, the
\* characters sanitizar removes, a letter and a digit
Alfabeto == {" ", "&", "<", ">", ";", "'", "\"", "a", "1"}

\* every string over the alphabet of at most MaxLen characters
Textos == UNION {[1..n -> Alfabeto] : n \in 0..MaxLen}

\* Cpf1 with its last CpfLivres digits replaced by every combination
CpfsLivres ==
    {SubSeq(Cpf1, 1, 11 - CpfLivres) \o f : f \in [1..CpfLivres -> Digits]}

\* the eleven-fold repetitions of one digit
CpfsRepetidos == {[k \in 1..11 |-> d] : d \in Digits}

\* Cpf1 cut short or extended by a digit
CpfsOutroTamanho ==
    {SubSeq(Cpf1, 1, n) : n \in 0..10} \cup {Cpf1 \o <<d>> : d \in Digits}

\* 529.982.247-25 and 529.982.247-24, and Cpf1 among letters
CpfsFormatados ==
    {<<"5", "2", "9", ".", "9", "8", "2", ".", "2", "4", "7", "-", "2", "5">>,
     <<"5", "2", "9", ".", "9", "8", "2", ".", "2", "4", "7", "-", "2", "4">>,
     <<"a">> \o Cpf1 \o <<"b", " ">>}

CpfsIn == CpfsLivres \cup CpfsRepetidos \cup CpfsOutroTamanho \cup CpfsFormatados

Entradas == Textos \cup CpfsIn \cup {None}

InitFn ==
    /\ InitApp
    /\ texto \in Entradas
    /\ chamada = "nenhuma"
    /\ saida = <<>>

appvars == <<clock, request_times, clientes, session, pc, req, now, tmp,
             cliente, resp, admitted, nreq, registrados>>

\* sanitizar(texto)
Sanitiza ==
    /\ chamada = "nenhuma"
    /\ chamada' = "sanitizar"
    /\ saida' = <<sanitizar(texto)>>
    /\ UNCHANGED <<texto, appvars>>

\* sanitizar called on what sanitizar returned
Ressanitiza ==
    /\ chamada = "sanitizar"
    /\ Len(saida) = 1
    /\ saida' = Append(saida, sanitizar(saida[1]))
    /\ UNCHANGED <<texto, chamada, appvars>>

\* validar_cpf(texto), texto a string
ValidaCpf ==
    /\ chamada = "nenhuma"
    /\ texto # None
    /\ chamada' = "validar_cpf"
    /\ saida' = <<validar_cpf(texto)>>
    /\ UNCHANGED <<texto, appvars>>

NextFn ==
    \/ Sanitiza
    \/ Ressanitiza
    \/ ValidaCpf

SpecFn == InitFn /\ [][NextFn]_vars

(***************************************************************************)
(* Properties of the rate limiter.                                         *)
(***************************************************************************)
\* the limiter has decided on the request of p
Decided(p) == pc[p] \notin {"idle", "rl_write", "rl_check"}

Rejected(p) == pc[p] = "done" /\ resp[p].code = 429

\* the request of p was admitted and its timestamp appended
Recorded(p) == Decided(p) /\ ~Rejected(p) /\ pc[p] # "rl_append"

\* the times of the calls of the identity that endpoint ep admitted before
\* the call of p
Prior(p, ep) ==
    LET a == admitted[req[p].ip][ep] IN
    IF Recorded(p) /\ ep = req[p].ep THEN SubSeq(a, 1, Len(a) - 1) ELSE a

\* how many of the times in a lie inside the window that ends at n
InWindow(a, n, window) ==
    Cardinality({k \in DOMAIN a : a[k] <= n /\ n - a[k] < window})

\* the same, over the endpoints in eps
InWindowAll(p, eps) ==
    LET RECURSIVE Sum(_)
        Sum(S) == IF S = {} THEN 0
                  ELSE LET ep == CHOOSE e \in S : TRUE IN
                       InWindow(Prior(p, ep), now[p], WindowOf(req[p].ep)) + Sum(S \ {ep})
    IN Sum(eps)

\* C1: when requests are handled one after the other, no endpoint admits more
\* than max_requests requests of one identity inside any trailing window, and
\* a request is rejected exactly when the pruned list already holds
\* max_requests timestamps; an admitted request has its timestamp recorded.
C1_SlidingWindow ==
    /\ \A ip \in IPs, ep \in Endpoints, T \in 0..MaxTime :
          InWindow(admitted[ip][ep], T, WindowOf(ep)) <= MaxRequests(ep)
    /\ \A p \in Procs : Decided(p) =>
          /\ Rejected(p) <=> Len(tmp[p]) >= MaxRequests(req[p].ep)
          /\ Recorded(p) =>
                \E k \in DOMAIN request_times[req[p].ip] :
                    request_times[req[p].ip][k] = now[p]

\* a request is rejected while its endpoint has admitted its full quota
C1_Witness ==
    \E p \in Procs :
        /\ Rejected(p)
        /\ InWindow(admitted[req[p].ip][req[p].ep], now[p], WindowOf(req[p].ep))
              = MaxRequests(req[p].ep)

\* C9: when an identity calls one endpoint with quota n, the call is admitted
\* exactly when fewer than n of its calls were admitted inside the window, so
\* n+1 calls inside a window give n admissions and then a rejection; a call
\* made once the window has passed since every admitted call is admitted.
C9_Burst ==
    \A p \in Procs : Decided(p) =>
        LET own == InWindow(Prior(p, req[p].ep), now[p], WindowOf(req[p].ep))
            others == InWindowAll(p, Endpoints \ {req[p].ep})
        IN /\ others = 0 => (Rejected(p) <=> own >= MaxRequests(req[p].ep))
           /\ own + others = 0 => ~Rejected(p)

\* the call after n admitted calls to the same endpoint at the same second
\* is rejected
C9_Witness ==
    \E p \in Procs :
        /\ Rejected(p)
        /\ InWindowAll(p, Endpoints \ {req[p].ep}) = 0
        /\ Cardinality({k \in DOMAIN Prior(p, req[p].ep) : Prior(p, req[p].ep)[k] = now[p]})
              = MaxRequests(req[p].ep)

\* C10: a registration or listing request is admitted whenever its own
\* endpoint admitted fewer than its quota of requests of the identity in the
\* preceding window, whatever the identity sent to the other endpoints.
C10_OwnQuota ==
    \A p \in Procs : (Decided(p) /\ req[p].ep \in {"cadastrar_cliente", "clientes_json"}) =>
        (InWindow(Prior(p, req[p].ep), now[p], WindowOf(req[p].ep)) < MaxRequests(req[p].ep)
         => ~Rejected(p))

\* C2: under concurrent handling the limiter still admits at most
\* max_requests requests of an identity inside one window, and the timestamp
\* of every admitted request stays in the identity's list.
C2_ConcurrentQuota ==
    \A ip \in IPs :
        /\ \A ep \in Endpoints :
              InWindow(admitted[ip][ep], clock, WindowOf(ep)) <= MaxRequests(ep)
        /\ \A ep \in Endpoints : \A k \in DOMAIN admitted[ip][ep] :
              clock - admitted[ip][ep][k] < WindowOf(ep) =>
                  \E i \in DOMAIN request_times[ip] :
                      request_times[ip][i] = admitted[ip][ep][k]

\* C17: a call of the limiter drops only the timestamps strictly older than
\* now - window: a recorded timestamp t with now - t equal to window is still
\* in the list the call compares with max_requests.
C17_BoundaryRetained ==
    \A p \in Procs : pc[p] = "rl_write" =>
        \A k \in DOMAIN request_times[req[p].ip] :
            now[p] - request_times[req[p].ip][k] <= WindowOf(req[p].ep)
                => \E j \in DOMAIN tmp[p] : tmp[p][j] = request_times[req[p].ip][k]

(***************************************************************************)
(* Properties of registration.                                             *)
(***************************************************************************)
\* C3: no two stored client records have the same email, and no two have the
\* same national-ID, whatever the interleaving of the registrations.
C3_Unique ==
    \A i, j \in 1..Len(clientes) :
        i # j => clientes[i].email # clientes[j].email /\ clientes[i].cpf # clientes[j].cpf

\* two records are stored and a registration that passed the pre-check was
\* stopped by the UNIQUE constraint
C3_Witness ==
    /\ Len(clientes) = 2
    /\ \E p \in Procs : pc[p] = "done" /\ resp[p] = Raised("IntegrityError")

\* C4: no exception leaves cadastrar_cliente: every error of a registration
\* becomes a formatted response.
C4_NoException ==
    \A p \in Procs :
        req[p].ep = "cadastrar_cliente" => resp[p].kind # "exception"

Conflito == Json(400, "erro", "Email ou CPF já cadastrado")
Cadastrado == Json(200, "ok", "Cliente cadastrado com sucesso")

\* the registration of p, having passed admission and validation, returns
FimCadastro(p) ==
    /\ req[p].ep = "cadastrar_cliente"
    /\ pc[p] \in {"cad_select", "cad_insert"}
    /\ pc'[p] = "done"

TemEmail(rows, email) == \E k \in 1..Len(rows) : rows[k].email = email
TemCpf(rows, cpf) == \E k \in 1..Len(rows) : rows[k].cpf = cpf

\* the second of two registrations with the same email and different
\* national-IDs returns the conflict error and adds no record
SegundoCadastro(p) ==
    LET c == Campos(req[p].form) IN
    (\E k \in 1..Len(clientes) : clientes[k].email = c.email /\ clientes[k].cpf # c.cpf)
        => resp'[p] = Conflito /\ clientes' = clientes

\* C5 as stated: of two validated registrations with the same email and
\* different national-IDs handled one after the other on a store without that
\* email, the first returns success, the second the conflict error.  (An age
\* that is an integer literal is counted as part of passing validation.)
C5_AsStated ==
    [][\A p \in Procs : FimCadastro(p) =>
          LET c == Campos(req[p].form) IN
          /\ (~TemEmail(clientes, c.email) /\ IsIntStr(c.idade)) => resp'[p] = Cadastrado
          /\ SegundoCadastro(p)]_vars

\* C5 amended: the first returns success when, besides, the store holds no
\* record with its national-ID (and its age is an integer literal); its
\* record is then stored, and the second returns the conflict error and adds
\* nothing.
C5_SameEmail ==
    [][\A p \in Procs : FimCadastro(p) =>
          LET c == Campos(req[p].form) IN
          /\ (~TemEmail(clientes, c.email) /\ ~TemCpf(clientes, c.cpf) /\ IsIntStr(c.idade))
                => /\ resp'[p] = Cadastrado
                   /\ Len(clientes') = Len(clientes) + 1
                   /\ clientes'[Len(clientes')].email = c.email
                   /\ clientes'[Len(clientes')].cpf = c.cpf
          /\ SegundoCadastro(p)]_vars

\* a registration has just been refused because a stored record has its
\* email and another national-ID
C5_Witness ==
    \E p \in Procs :
        /\ pc[p] = "done" /\ req[p].ep = "cadastrar_cliente" /\ resp[p] = Conflito
        /\ \E k \in 1..Len(clientes) :
              /\ clientes[k].email = Campos(req[p].form).email
              /\ clientes[k].cpf # Campos(req[p].form).cpf

\* the form cannot be registered whatever the store holds
FormRecusado(form) ==
    LET c == Campos(form) IN
    \/ ~TodosPresentes(c)
    \/ ~validar_email(c.email)
    \/ ~validar_telefone(c.telefone)
    \/ ~validar_cpf(c.cpf)
    \/ ~IsIntStr(c.idade)

\* C6: a registration that does not return success leaves the stored records
\* as they were; a successful one appends exactly one record and changes no
\* other.
C6_Frame ==
    [][\A p \in Procs : (pc'[p] # pc[p] /\ req'[p].ep = "cadastrar_cliente") =>
          IF pc'[p] = "done" /\ resp'[p] = Cadastrado
          THEN /\ Len(clientes') = Len(clientes) + 1
               /\ SubSeq(clientes', 1, Len(clientes)) = clientes
               /\ ~FormRecusado(req[p].form)
               /\ ~JaCadastrado(clientes, Campos(req[p].form).email, Campos(req[p].form).cpf)
          ELSE clientes' = clientes]_vars

\* a registration was refused and the store holds what it held
C6_Witness ==
    \E p \in Procs :
        /\ pc[p] = "done" /\ req[p].ep = "cadastrar_cliente"
        /\ resp[p].code \in {400, 500}
        /\ FormRecusado(req[p].form)
        /\ Len(clientes) = 1

\* C16: in every reachable state, the senha field of every stored record is
\* the output of the password hash applied to the password submitted with
\* its registration, and is not that password itself.
C16_HashedPassword ==
    \A k \in 1..Len(clientes) :
        \E g \in registrados :
            /\ g.id = clientes[k].id
            /\ \E salt \in Salts :
                  clientes[k].senha = generate_password_hash(g.senha, salt)
            /\ clientes[k].senha # g.senha

\* two records are stored, their passwords hashed under different salts
C16_Witness ==
    /\ Len(clientes) = 2
    /\ Cardinality(registrados) = 2
    /\ clientes[1].senha # clientes[2].senha

(***************************************************************************)
(* Properties of the listing.                                              *)
(***************************************************************************)
\* C15: the listing returns the stored records in reverse insertion order,
\* the most recently created first; every entry holds id, name, email,
\* phone, national-ID and gender of its record and nothing else, so never
\* the password hash; the listing leaves the store as it was.
C15_Listing ==
    [][\A p \in Procs : (pc[p] = "list_select" /\ pc'[p] # pc[p]) =>
          LET n == Len(clientes)
              rows == resp'[p].rows
          IN /\ clientes' = clientes
             /\ pc'[p] = "done" /\ resp'[p].code = 200
             /\ Len(rows) = n
             /\ \A k \in 1..n :
                   /\ DOMAIN rows[k] = {"id", "nome", "email", "telefone", "cpf", "genero"}
                   /\ rows[k].id = clientes[n + 1 - k].id
                   /\ rows[k].nome = clientes[n + 1 - k].nome
                   /\ rows[k].email = clientes[n + 1 - k].email
                   /\ rows[k].telefone = clientes[n + 1 - k].telefone
                   /\ rows[k].cpf = clientes[n + 1 - k].cpf
                   /\ rows[k].genero = clientes[n + 1 - k].genero
             /\ \A j, k \in 1..n : j < k => rows[j].id > rows[k].id]_vars

\* a listing of two stored records has returned the second before the first
C15_Witness ==
    \E p \in Procs :
        /\ pc[p] = "done" /\ req[p].ep = "clientes_json" /\ resp[p].code = 200
        /\ Len(clientes) = 2
        /\ Len(resp[p].rows) = 2
        /\ resp[p].rows[1].email = clientes[2].email
        /\ resp[p].rows[2].email = clientes[1].email

(***************************************************************************)
(* Properties of login.                                                    *)
(***************************************************************************)
SemConta(rows, form) == BuscaPorEmail(rows, sanitizar(form.email)) = NoRow

SenhaErrada(rows, form) ==
    LET cli == BuscaPorEmail(rows, sanitizar(form.email)) IN
    /\ cli # NoRow
    /\ form.senha # None
    /\ ~check_password_hash(cli.senha, form.senha)

Verificados(rows, email, senha) ==
    {k \in 1..Len(rows) :
        /\ rows[k].email = email
        /\ senha # None
        /\ check_password_hash(rows[k].senha, senha)}

\* C11: login_cliente writes the session marker only when a record with the
\* sanitized email exists and the supplied password verifies against its
\* stored hash, and the marker is then that record's id and name; a login
\* that fails or is rate-limited, and every other request, leaves the
\* session as it was.
C11_SessionMarker ==
    [][\A p \in Procs :
          IF pc[p] = "login_check" /\ pc'[p] = "done"
          THEN LET v == Verificados(clientes, sanitizar(req[p].form.email),
                                    req[p].form.senha)
               IN IF v = {}
                  THEN resp'[p].code # 200 /\ session' = session
                  ELSE /\ resp'[p].code = 200
                       /\ \E k \in v :
                             session' = [session EXCEPT ![req[p].ip] =
                                 [cliente_id |-> clientes[k].id,
                                  cliente_nome |-> clientes[k].nome]]
          ELSE pc'[p] # pc[p] => session' = session]_vars

\* a login whose password verifies has returned success and has written
\* the marker of the second stored record
C11_Witness ==
    \E p \in Procs :
        /\ pc[p] = "done" /\ req[p].ep = "login_cliente" /\ resp[p].code = 200
        /\ Len(clientes) = 2
        /\ session[req[p].ip] = [cliente_id |-> 2, cliente_nome |-> clientes[2].nome]

\* C18: once a registration with raw email e and password p has returned
\* success, every later login with the same raw e and p that the limiter
\* admits returns success and binds the session to the id and name of the
\* record that registration created, whatever was registered or logged in
\* in between.
C18_RoundTrip ==
    \A p \in Procs :
        (pc[p] = "done" /\ req[p].ep = "login_cliente" /\ resp[p].code # 429) =>
            \A g \in registrados :
                (g.email = req[p].form.email /\ g.senha = req[p].form.senha) =>
                    /\ resp[p] = Json(200, "ok", "Login realizado com sucesso")
                    /\ \E k \in 1..Len(clientes) :
                          /\ clientes[k].id = g.id
                          /\ session[req[p].ip] =
                                [cliente_id |-> g.id, cliente_nome |-> clientes[k].nome]

\* after both accounts were registered, the one registered first with the
\* padded email has logged in with the email and password as first submitted
C18_Witness ==
    \E p \in Procs :
        /\ pc[p] = "done" /\ req[p].ep = "login_cliente" /\ resp[p].code = 200
        /\ req[p].form.email = EmailEspacos
        /\ Len(clientes) = 2
        /\ [email |-> EmailEspacos, senha |-> Senha1, id |-> 1] \in registrados
        /\ session[req[p].ip].cliente_id = 1

(***************************************************************************)
(* Properties of a rejected request.                                       *)
(***************************************************************************)
\* C8: a request rejected by the limiter does not append its attempt, does
\* not run the handler and leaves the store and the session unchanged; all
\* it does to the identity's list is to drop the expired timestamps.
C8_RejectedFrame ==
    [][\A p \in Procs :
          /\ (pc[p] \in {"idle", "rl_write", "rl_check"} /\ pc'[p] # pc[p])
                => clientes' = clientes /\ session' = session
          /\ (pc[p] = "idle" /\ pc'[p] # pc[p]) => request_times' = request_times
          /\ (pc[p] = "rl_write" /\ pc'[p] # pc[p])
                => request_times' = [request_times EXCEPT ![req[p].ip] =
                        Prune(request_times[req[p].ip], now[p], WindowOf(req[p].ep))]
          /\ (pc[p] = "rl_check" /\ pc'[p] = "done")
                => /\ resp'[p].code = 429
                   /\ request_times' = request_times
                   /\ request_times[req[p].ip] = tmp[p]
                   /\ cliente'[p] = NoRow
          /\ (pc'[p] = "done" /\ resp'[p].code = 429) => pc[p] \in {"rl_check", "done"}]_vars

\* a request was rejected while records are stored and a session is open
C8_Witness ==
    \E p \in Procs :
        /\ Rejected(p)
        /\ Len(clientes) > 0
        /\ session[req[p].ip] # NoSession

(***************************************************************************)
(* Properties of sanitizar and of the validators.                          *)
(***************************************************************************)
\* C12: for every string s over the input alphabet, sanitizar(sanitizar(s))
\* equals sanitizar(s).
C12_Idempotent ==
    (chamada = "sanitizar" /\ Len(saida) = 2) => saida[2] = saida[1]

\* the fields as the checks of cadastrar_cliente see them
Presentes(form) ==
    /\ Truthy(sanitizar(form.nome)) /\ Truthy(form.idade)
    /\ Truthy(sanitizar(form.email)) /\ Truthy(sanitizar(form.telefone))
    /\ Truthy(sanitizar(form.endereco)) /\ Truthy(sanitizar(form.genero))
    /\ Truthy(sanitizar(form.cpf)) /\ Truthy(form.senha)

EmailOk(form) == validar_email(sanitizar(form.email))
TelefoneOk(form) == validar_telefone(sanitizar(form.telefone))
CpfOk(form) == validar_cpf(sanitizar(form.cpf))

\* the validation error with this message, returned without a query
Recusa(p, mensagem) ==
    /\ pc'[p] = "done"
    /\ resp'[p] = Json(400, "erro", mensagem)
    /\ clientes' = clientes

\* C13: a registration is checked in the order presence, email, phone,
\* national-ID and the response names the first rule that fails, whatever
\* the later fields are; the request then ends without the store being
\* queried or modified.  (A field is present, or valid, as the check sees it:
\* after sanitizar.)
C13_CheckOrder ==
    [][\A p \in Procs : (pc[p] = "cad_valida" /\ pc'[p] # pc[p]) =>
          LET f == req[p].form IN
          /\ ~Presentes(f) => Recusa(p, "Todos os campos são obrigatórios")
          /\ (Presentes(f) /\ ~EmailOk(f)) => Recusa(p, "Email inválido")
          /\ (Presentes(f) /\ EmailOk(f) /\ ~TelefoneOk(f))
                => Recusa(p, "Telefone inválido")
          /\ (Presentes(f) /\ EmailOk(f) /\ TelefoneOk(f) /\ ~CpfOk(f))
                => Recusa(p, "CPF inválido")
          /\ (Presentes(f) /\ EmailOk(f) /\ TelefoneOk(f) /\ CpfOk(f))
                => pc'[p] = "cad_select" /\ clientes' = clientes]_vars

\* a form whose email, phone and national-ID are all invalid got the email
\* error while a record is stored
C13_Witness ==
    \E p \in Procs :
        /\ pc[p] = "done" /\ req[p].ep = "cadastrar_cliente"
        /\ resp[p] = Json(400, "erro", "Email inválido")
        /\ ~TelefoneOk(req[p].form) /\ ~CpfOk(req[p].form)
        /\ Len(clientes) = 1

\* the value of the k-th digit
Val(d, k) == DigitVal(d[k])

\* the weighted sums of the first and of the second pass, weights (i+1)-j
Soma9(d) ==
    10 * Val(d, 1) + 9 * Val(d, 2) + 8 * Val(d, 3) + 7 * Val(d, 4) + 6 * Val(d, 5)
    + 5 * Val(d, 6) + 4 * Val(d, 7) + 3 * Val(d, 8) + 2 * Val(d, 9)

Soma10(d) ==
    11 * Val(d, 1) + 10 * Val(d, 2) + 9 * Val(d, 3) + 8 * Val(d, 4) + 7 * Val(d, 5)
    + 6 * Val(d, 6) + 5 * Val(d, 7) + 4 * Val(d, 8) + 3 * Val(d, 9) + 2 * Val(d, 10)

\* the expected check digit for a weighted sum
Esperado(total) == IF 11 - (total % 11) > 9 THEN 0 ELSE 11 - (total % 11)

NumDigitos(s) == Cardinality({k \in DOMAIN s : s[k] \in Digits})

\* eleven digits, not all identical, both check digits as expected
CpfValido(s) ==
    LET d == OnlyDigits(s) IN
    /\ Len(d) = 11
    /\ \E i, j \in 1..11 : d[i] # d[j]
    /\ Val(d, 10) = Esperado(Soma9(d))
    /\ Val(d, 11) = Esperado(Soma10(d))

\* C14: validar_cpf returns true exactly for the inputs that, once the
\* non-digits are stripped, have eleven digits, not all identical, whose
\* tenth and eleventh digits are the expected check digits; it rejects every
\* eleven-fold repetition of a digit and every input without exactly eleven
\* digits, accepts 52998224725 and rejects 52998224724.
C14_CheckDigits ==
    chamada = "validar_cpf" =>
        /\ saida[1] <=> CpfValido(texto)
        /\ texto \in CpfsRepetidos => ~saida[1]
        /\ NumDigitos(texto) # 11 => ~saida[1]
        /\ texto = Cpf1 => saida[1]
        /\ texto = CpfInvalido => ~saida[1]

\* validar_cpf accepted a national-ID whose first check digit is 0 because
\* the computed digit was above 9
C14_Witness ==
    /\ chamada = "validar_cpf"
    /\ saida = <<TRUE>>
    /\ NumDigitos(texto) = 11
    /\ 11 - (Soma9(OnlyDigits(texto)) % 11) > 9

\* the registration of p has passed the phone check of line 115
PassouTelefone(p) ==
    /\ req[p].ep = "cadastrar_cliente"
    /\ \/ pc[p] \in {"cad_select", "cad_insert"}
       \/ pc[p] = "done" /\ resp[p] = Json(400, "erro", "CPF inválido")

\* the registration of p has passed the national-ID check of line 116
PassouCpf(p) ==
    req[p].ep = "cadastrar_cliente" /\ pc[p] \in {"cad_select", "cad_insert"}

\* C19: in cadastrar_cliente the phone and national-ID checks judge the
\* digits the client submitted: sanitizar neither adds nor removes digits, so
\* a registration passes the phone check only if the raw phone has 10 or 11
\* digits, and the national-ID check only if the raw value has 11 digits
\* with a valid checksum.
C19_RawDigits ==
    \A p \in Procs :
        /\ PassouTelefone(p) =>
              /\ OnlyDigits(sanitizar(req[p].form.telefone)) = OnlyDigits(req[p].form.telefone)
              /\ NumDigitos(req[p].form.telefone) \in {10, 11}
        /\ PassouCpf(p) =>
              /\ OnlyDigits(sanitizar(req[p].form.cpf)) = OnlyDigits(req[p].form.cpf)
              /\ NumDigitos(req[p].form.cpf) = 11
              /\ CpfValido(req[p].form.cpf)

====
